---- MODULE Spec2Model ----
(***************************************************************************)
(* A model of mergekit's merge driver (mergekit/merge.py, run_merge) and   *)
(* merge planner (mergekit/plan.py, MergePlanner).                         *)
(*                                                                         *)
(* The configuration, the run options and the architecture of each model  *)
(* are inputs drawn from bounded sets in Init.  MergePlanner is modelled  *)
(* as operators on a record `self` holding the planner's fields; a raised  *)
(* exception is the field `error`, after which the remaining statements   *)
(* of plan() do nothing.  run_merge is a sequence of steps recorded in pc. *)
(*                                                                         *)
(* Collaborators whose code is outside the two modules (the architecture  *)
(* tables, the merge-method registry, the parameter reader, the loader    *)
(* cache, the executor and the shard writer) are modelled from their       *)
(* documented interface.                                                   *)
(*                                                                         *)
(* run_merge hands the planner the shard size and the clone flag by       *)
(* keyword (merge.py:69-75) while MergePlanner.__init__ reads them from   *)
(* an options object (plan.py:50-63); the model binds the two to the      *)
(* same values, i.e. it follows the callee's reading of the options.      *)
(*                                                                         *)
(* Specifications: SpecPlan (run_merge up to the plan, wide layer          *)
(* ranges), Spec (the whole of run_merge), SpecLive (Spec with a fair      *)
(* executor), SpecOutput (run_merge after the executor loop, for either    *)
(* outcome of the loop) and SpecWriter (the shard writer on its own).      *)
(***************************************************************************)
EXTENDS Integers, Sequences, FiniteSets, TLC

VARIABLES cfg, opts, world, pc, err, archs, planner, targets, warmed, done,
          tokenizer, out, writer

vars == <<cfg, opts, world, pc, err, archs, planner, targets, warmed, done,
          tokenizer, out, writer>>

(***************************************************************************)
(* Bounds of the model.                                                    *)
(***************************************************************************)
\* largest number of input slices (sources) in one configuration, all
\* output slices together
MaxSources == 2
\* largest length hi - lo of a layer range, planning-only specification
MaxLen == 3
\* largest length hi - lo of a layer range when the plan is also executed
MaxRunLen == 1
\* largest number of writes handed to one shard writer
MaxWrites == 4
\* largest size of one write, in bytes
MaxWriteSize == 3

Models == {"m1", "m2"}
None == "None"
NoError == "ok"

\* first layer of a layer range
LayerStarts == {0, 1}

(***************************************************************************)
(* Architecture metadata (mergekit.architecture, consumed through          *)
(* pre_weights / post_weights / layer_weight_formats / embed_weights).     *)
(* "llama" has an embedding-class pre weight; "gpt2seq" names its          *)
(* embedding weights differently from the weights it plans, so none of    *)
(* its planned weights is embedding-class.                                 *)
(***************************************************************************)
Archs == {"llama", "gpt2seq"}

pre_weights(arch_info) ==
  IF arch_info = "llama" THEN << <<"model.embed_tokens">> >>
  ELSE << <<"transformer.wte">> >>

post_weights(arch_info) ==
  IF arch_info = "llama" THEN << <<"lm_head">> >>
  ELSE << >>

layer_weight_formats(arch_info) ==
  IF arch_info = "llama"
  THEN <<"model.layers.{idx}.mlp">>
  ELSE <<"transformer.h.{idx}.attn", "transformer.h.{idx}.mlp">>

embed_weights(arch_info) ==
  IF arch_info = "llama" THEN { <<"model.embed_tokens">> }
  ELSE { <<"wte">> }

\* str.format(idx=...): the template with the index substituted; two
\* results are equal exactly when template and index are
format(name_format, idx) == <<name_format, idx>>

(***************************************************************************)
(* Merge-method registry and parameter reader (mergekit.merge_methods,     *)
(* mergekit.config.ConfigReader).                                          *)
(***************************************************************************)
MergeMethods == {"passthrough", "linear"}

\* tensor_parameters(): the per-model parameters a method declares
tensor_parameters(method) ==
  IF method = "linear" THEN { [name |-> "weight", required |-> TRUE] }
  ELSE IF method = "tokenizer_permute"
       THEN { [name |-> "weight", required |-> FALSE] }
       ELSE {}

\* parameters(): the global parameters a method declares
parameters(method) ==
  IF method = "linear" THEN { [name |-> "normalize", required |-> FALSE] }
  ELSE {}

\* ConfigReader.parameter: the value defined at some scope, else the
\* default, else (required) an error
parameter_defined(config, name, model) ==
  name = "weight" /\ model \in config.weights

parameter_raises(config, p, model) ==
  p.required /\ ~parameter_defined(config, p.name, model)

(***************************************************************************)
(* MergePlanner (mergekit/plan.py).                                        *)
(***************************************************************************)
NoTask == [kind |-> "None"]

\* a Python value is truthy: a non-empty string that is not None
truthy(s) == s # "" /\ s # None

\* MergePlanner.__init__
MergePlanner(config, arch_info, out_path, options) ==
  [ config |-> config,
    arch_info |-> arch_info,
    clone_tensors |-> options.clone_tensors,
    method |-> config.merge_method,
    writer_task |-> [kind |-> "TensorWriterTask", out_path |-> out_path,
                     max_shard_size |-> options.out_shard_size],
    tokenizer_task |->
      IF truthy(config.merge_method)
      THEN [kind |-> "BuildTokenizer",
            trust_remote_code |-> options.trust_remote_code]
      ELSE NoTask,
    tasks |-> <<>>,
    current_layers |-> 0,
    error |-> NoError ]

\* dict(zip(models, names_in)): one entry per distinct model, a later
\* pair replacing an earlier one with the same key
dict_zip(models, names_in) ==
  LET n == IF Len(models) < Len(names_in) THEN Len(models) ELSE Len(names_in)
      last(m) == CHOOSE i \in 1..n :
                   /\ models[i] = m
                   /\ \A j \in 1..n : models[j] = m => j <= i
  IN [m \in {models[i] : i \in 1..n} |-> names_in[last(m)]]

\* the merge method plan_tensor uses for a weight (plan.py:77-82)
tensor_merge_method_for(self, name) ==
  IF self.tokenizer_task # NoTask /\ name \in embed_weights(self.arch_info)
  THEN "tokenizer_permute"
  ELSE self.method

MissingParameter == "Missing required parameter"

\* the parameter lookups of plan_tensor raise (plan.py:84-98)
plan_tensor_raises(self, method, models) ==
  \/ \E p \in parameters(method) : parameter_raises(self.config, p, None)
  \/ \E i \in 1..Len(models) : \E p \in tensor_parameters(method) :
       parameter_raises(self.config, p, models[i])

\* the SaveTensor task plan_tensor builds (plan.py:100-121)
SaveTensor(self, name, names_in, models, t) ==
  LET method == tensor_merge_method_for(self, name) IN
  [ kind |-> "SaveTensor",
    tensor_name |-> name,
    tensor_task |->
      [ kind |-> "MergeTask",
        method |-> method,
        output_tensor_name |-> name,
        tensors |-> [kind |-> "GatherTensors",
                     tensor_names |-> dict_zip(models, names_in),
                     dtype |-> self.config.dtype],
        t |-> t,
        tokenizer_task |-> IF method = "tokenizer_permute"
                           THEN self.tokenizer_task ELSE NoTask,
        base_model |-> self.config.base_model ],
    writer_task |-> self.writer_task,
    clone |-> self.clone_tensors ]

\* MergePlanner.plan_tensor; t is the t of the ConfigReader it is given
plan_tensor(self, name, names_in, models, t) ==
  IF self.error # NoError THEN self
  ELSE IF plan_tensor_raises(self, tensor_merge_method_for(self, name), models)
  THEN [self EXCEPT !.error = MissingParameter]
  ELSE [self EXCEPT
          !.tasks = Append(@, SaveTensor(self, name, names_in, models, t))]

\* the output layer index plan_layer formats the output name with
name_out_idx(self) == self.current_layers

RECURSIVE plan_layer_from(_, _, _, _, _)
plan_layer_from(self, sources, layer_offset, t, k) ==
  LET fmts == layer_weight_formats(self.arch_info) IN
  IF k > Len(fmts) \/ self.error # NoError THEN self
  ELSE plan_layer_from(
         plan_tensor(self,
                     format(fmts[k], name_out_idx(self)),
                     [i \in 1..Len(sources) |->
                        format(fmts[k], sources[i].lo + layer_offset)],
                     [i \in 1..Len(sources) |-> sources[i].model],
                     t),
         sources, layer_offset, t, k + 1)

\* MergePlanner.plan_layer
plan_layer(self, sources, layer_offset, t) ==
  plan_layer_from(self, sources, layer_offset, t, 1)

\* Python's a / b on numbers: the quotient as a fraction, or the
\* ZeroDivisionError it raises
ZeroDivision == [num |-> 0, den |-> 0]
true_div(a, b) == IF b = 0 THEN ZeroDivision ELSE [num |-> a, den |-> b]
Zero == [num |-> 0, den |-> 1]
One == [num |-> 1, den |-> 1]

\* variant: the single-layer case is not set apart
interpolation_t_unguarded(idx, num_layers) == true_div(idx, num_layers - 1)

\* the interpolation fraction of plan_slice (plan.py:156-160)
interpolation_t(idx, num_layers) ==
  IF num_layers > 1 THEN true_div(idx, num_layers - 1) ELSE One

slice_lengths(definition) ==
  [i \in 1..Len(definition.sources) |->
     definition.sources[i].hi - definition.sources[i].lo]

\* variant: any() in place of all()
any_same_length(lengths) ==
  \E i \in 1..Len(lengths) : lengths[i] = lengths[1]

\* the test of plan.py:148
all_same_length(lengths) ==
  \A i \in 1..Len(lengths) : lengths[i] = lengths[1]

UnequalSlices == "All inputs to a slice must contain the same number of layers"

RECURSIVE plan_slice_from(_, _, _, _)
plan_slice_from(self, definition, num_layers, idx) ==
  IF idx >= num_layers \/ self.error # NoError THEN self
  ELSE LET t == interpolation_t(idx, num_layers) IN
       IF t = ZeroDivision
       THEN [self EXCEPT !.error = "ZeroDivisionError"]
       ELSE plan_slice_from(plan_layer(self, definition.sources, idx, t),
                            definition, num_layers, idx + 1)

\* MergePlanner.plan_slice
plan_slice(self, definition) ==
  IF self.error # NoError THEN self
  ELSE IF Len(definition.sources) = 0
  THEN [self EXCEPT !.error = "IndexError"]
  ELSE IF ~all_same_length(slice_lengths(definition))
  THEN [self EXCEPT !.error = UnequalSlices]
  ELSE plan_slice_from(self, definition, slice_lengths(definition)[1], 0)

\* config.slices[i] of plan.py:175 and 186: i = 0 is the first, i = -1
\* the last; fails on None and on an empty list
slices_index_raises(config) == config.slices_none \/ Len(config.slices) = 0

RECURSIVE plan_whole_from(_, _, _, _, _)
plan_whole_from(self, names, sources, t, k) ==
  IF k > Len(names) \/ self.error # NoError THEN self
  ELSE plan_whole_from(
         plan_tensor(self, names[k],
                     [i \in 1..Len(sources) |-> names[k]],
                     [i \in 1..Len(sources) |-> sources[i].model],
                     t),
         names, sources, t, k + 1)

\* the loop over pre_weights() of plan() (plan.py:172-178)
plan_pre_weights(self) ==
  IF self.error # NoError \/ Len(pre_weights(self.arch_info)) = 0 THEN self
  ELSE IF slices_index_raises(self.config)
  THEN [self EXCEPT !.error = "slices is None or empty"]
  ELSE plan_whole_from(self, pre_weights(self.arch_info),
                       self.config.slices[1].sources, Zero, 1)

RECURSIVE plan_slices_from(_, _)
plan_slices_from(self, k) ==
  IF k > Len(self.config.slices) \/ self.error # NoError THEN self
  ELSE plan_slices_from(plan_slice(self, self.config.slices[k]), k + 1)

\* the loop over config.slices of plan() (plan.py:180-181)
plan_slices(self) ==
  IF self.error # NoError THEN self
  ELSE IF self.config.slices_none
  THEN [self EXCEPT !.error = "slices is None or empty"]
  ELSE plan_slices_from(self, 1)

\* variant: the post weights read the first slice's sources
plan_post_weights_first_slice(self) ==
  IF self.error # NoError \/ Len(post_weights(self.arch_info)) = 0 THEN self
  ELSE IF slices_index_raises(self.config)
  THEN [self EXCEPT !.error = "slices is None or empty"]
  ELSE plan_whole_from(self, post_weights(self.arch_info),
                       self.config.slices[1].sources, One, 1)

\* the loop over post_weights() of plan() (plan.py:183-189)
plan_post_weights(self) ==
  IF self.error # NoError \/ Len(post_weights(self.arch_info)) = 0 THEN self
  ELSE IF slices_index_raises(self.config)
  THEN [self EXCEPT !.error = "slices is None or empty"]
  ELSE plan_whole_from(self, post_weights(self.arch_info),
                       self.config.slices[Len(self.config.slices)].sources,
                       One, 1)

\* variant: the list of saves is taken before the last save is planned
FinalizeModelBeforeLast(self) ==
  [ kind |-> "FinalizeModel",
    tensor_save_tasks |-> SubSeq(self.tasks, 1, Len(self.tasks) - 1),
    writer_task |-> self.writer_task ]

\* the FinalizeModel task of plan.py:191-195
FinalizeModel(self) ==
  [ kind |-> "FinalizeModel",
    tensor_save_tasks |-> self.tasks,
    writer_task |-> self.writer_task ]

\* plan.py:191-195
append_finalize(self) ==
  IF self.error # NoError THEN self
  ELSE [self EXCEPT !.tasks = Append(@, FinalizeModel(self))]

\* MergePlanner.plan: the planner after the call
plan(self) ==
  append_finalize(
    plan_post_weights(plan_slices(plan_pre_weights(
      [self EXCEPT !.tasks = <<>>]))))

\* MergePlanner.plan: the list it returns (plan.py:196-199)
plan_res(self) ==
  IF self.tokenizer_task # NoTask
  THEN Append(self.tasks, self.tokenizer_task)
  ELSE self.tasks

(***************************************************************************)
(* The shard writer behind TensorWriterTask (built at plan.py:61-63 with   *)
(* the output path and the maximum shard size).  A shard is the sequence   *)
(* of writes it holds; a write is a weight name and its size in bytes.     *)
(***************************************************************************)
RECURSIVE shard_size(_)
shard_size(shard) ==
  IF shard = <<>> THEN 0 ELSE Head(shard).size + shard_size(Tail(shard))

\* a writer with no shard written and none open
TensorWriter(max_shard_size) ==
  [ max_shard_size |-> max_shard_size,
    shards |-> <<>>,
    current_shard |-> <<>>,
    finalized |-> FALSE,
    manifest |-> <<>>,
    calls |-> <<>> ]

\* the writer of a run that has not written anything
IdleWriter == TensorWriter(0)

\* close the open shard
flush_current_shard(w) ==
  IF w.current_shard = <<>> THEN w
  ELSE [w EXCEPT !.shards = Append(@, w.current_shard),
                 !.current_shard = <<>>]

\* variant: a write never closes the open shard
save_tensor_no_rollover(w, name, size) ==
  [w EXCEPT !.current_shard = Append(@, [name |-> name, size |-> size]),
            !.calls = Append(@, [name |-> name, size |-> size])]

\* accept one write: the open shard is closed first when it holds
\* something and the write would take it over the maximum size
save_tensor(w, name, size) ==
  LET v == IF /\ w.current_shard # <<>>
              /\ shard_size(w.current_shard) + size > w.max_shard_size
           THEN flush_current_shard(w) ELSE w
  IN [v EXCEPT !.current_shard = Append(@, [name |-> name, size |-> size]),
               !.calls = Append(@, [name |-> name, size |-> size])]

\* the shard a name was last written to
shard_of(shards, name) ==
  CHOOSE i \in 1..Len(shards) :
    /\ \E k \in 1..Len(shards[i]) : shards[i][k].name = name
    /\ \A j \in (i + 1)..Len(shards) :
         \A k \in 1..Len(shards[j]) : shards[j][k].name # name

\* close the last shard and write the manifest: weight name -> shard
finalize(w) ==
  LET v == flush_current_shard(w)
      names == UNION {{v.shards[i][k].name : k \in 1..Len(v.shards[i])} :
                        i \in 1..Len(v.shards)}
  IN [v EXCEPT !.finalized = TRUE,
               !.manifest = [n \in names |-> shard_of(v.shards, n)]]

(***************************************************************************)
(* Inputs: configurations, options and the models' architectures.          *)
(***************************************************************************)
\* InputSliceDefinition values with layer_range [lo, lo + len]
Sources(starts, lens) ==
  {[model |-> m, lo |-> lo, hi |-> lo + len] :
     m \in Models, lo \in starts, len \in lens}

\* OutputSliceDefinition values with c sources
SlicesWith(S, c) == {[sources |-> f] : f \in [1..c -> S]}

\* lists of output slices holding at most n sources together
RECURSIVE SliceLists(_, _)
SliceLists(S, n) ==
  {<<>>} \cup
  UNION {{<<sl>> \o rest : sl \in SlicesWith(S, c),
                           rest \in SliceLists(S, n - c)} : c \in 1..n}

Configuration(method, weights, base, models, slices, none) ==
  [ merge_method |-> method, weights |-> weights, base_model |-> base,
    models |-> models, slices |-> slices, slices_none |-> none,
    dtype |-> "bfloat16", tokenizer_source |-> None ]

\* the same configuration asking for a tokenizer to be built
with_tokenizer_source(config, source) ==
  [config EXCEPT !.tokenizer_source = source]

\* the configuration asks for a tokenizer to be built
tokenizer_requested(config) == truthy(config.tokenizer_source)

\* merge method and the models that define its "weight" parameter
MethodChoices == { <<"passthrough", {}>>, <<"linear", {"m1"}>> }

\* configurations that give slices
SliceConfigs(S, n, bases) ==
  {Configuration(mw[1], mw[2], b, <<>>, sl, FALSE) :
     mw \in MethodChoices, b \in bases, sl \in SliceLists(S, n)}

\* configurations that give slices and ask for a tokenizer built from the
\* union of the models' vocabularies
TokenizerConfigs(S, n) ==
  {with_tokenizer_source(c, "union") : c \in SliceConfigs(S, n, {None})}

\* configurations that give a whole-model list, or nothing, and no slices
ModelListConfigs ==
  {Configuration(mw[1], mw[2], None, ms, <<>>, TRUE) :
     mw \in MethodChoices, ms \in {<<>>, <<"m1">>, <<"m1", "m2">>}}

Options(allow_crimes, copy_tokenizer) ==
  [ allow_crimes |-> allow_crimes, copy_tokenizer |-> copy_tokenizer,
    clone_tensors |-> FALSE, out_shard_size |-> "5B",
    trust_remote_code |-> FALSE, cuda |-> FALSE, low_cpu_memory |-> FALSE ]

\* the set of models a configuration references
\* (MergeConfiguration.referenced_models)
referenced_set(config) ==
  (IF truthy(config.base_model) THEN {config.base_model} ELSE {})
  \cup {config.models[i] : i \in 1..Len(config.models)}
  \cup UNION {{config.slices[i].sources[j].model :
                 j \in 1..Len(config.slices[i].sources)} :
              i \in 1..Len(config.slices)}

\* the orders in which referenced_models() may list them
Orders(S) ==
  {f \in [1..Cardinality(S) -> S] : \A m \in S : \E i \in DOMAIN f : f[i] = m}

NoPlanner == [error |-> "no planner"]
\* what run_merge has written and logged so far
EmptyOut ==
  [ manifest |-> FALSE, config |-> FALSE, tokenizer |-> FALSE,
    vocab_size_set |-> FALSE, num_layers_set |-> FALSE, num_layers |-> 0,
    warnings |-> {}, donor |-> None ]

InitWith(configs, options) ==
  /\ cfg \in configs
  /\ opts \in options
  /\ \E a \in Archs, r \in Orders(referenced_set(cfg)) :
       world = [arch |-> [m \in Models |-> IF m = "m1" THEN "llama" ELSE a],
                referenced |-> r]
  /\ pc = "start"
  /\ err = NoError
  /\ archs = <<>>
  /\ planner = NoPlanner
  /\ targets = <<>>
  /\ warmed = 0
  /\ done = {}
  /\ tokenizer = None
  /\ out = EmptyOut
  /\ writer = IdleWriter

(***************************************************************************)
(* run_merge (mergekit/merge.py), up to the plan.                          *)
(***************************************************************************)
Raise(message) == pc' = "error" /\ err' = message

NoOutput == "No output requested"
Crimes == "Must specify --allow-crimes to attempt to mix different architectures"

\* variant: "or" in place of "and"
either_output_missing(config) ==
  Len(config.models) = 0 \/ (config.slices_none \/ Len(config.slices) = 0)

\* merge.py:50: not merge_config.models and not merge_config.slices
no_output_requested(config) ==
  Len(config.models) = 0 /\ (config.slices_none \/ Len(config.slices) = 0)

\* merge.py:47-51
CheckOutputRequested ==
  /\ pc = "start"
  /\ IF no_output_requested(cfg) THEN Raise(NoOutput)
     ELSE pc' = "arch" /\ err' = err
  /\ UNCHANGED <<writer, cfg, opts, world, archs, planner, targets, warmed, done,
                 tokenizer, out>>

\* merge.py:53-55: the architecture of every referenced model, in the
\* order referenced_models() lists them
model_arch_info ==
  [i \in 1..Len(world.referenced) |-> world.arch[world.referenced[i]]]

\* variant: the check is made whatever allow_crimes says
architectures_differ(options, infos) ==
  ~(\A i \in 2..Len(infos) : infos[i] = infos[1])

\* merge.py:56-60: the architecture check raises
architectures_rejected(options, infos) ==
  /\ ~options.allow_crimes
  /\ ~(\A i \in 2..Len(infos) : infos[i] = infos[1])

\* merge.py:61
arch_info(infos) == infos[1]

\* merge.py:53-61
CheckArchitectures ==
  /\ pc = "arch"
  /\ archs' = model_arch_info
  /\ IF architectures_rejected(opts, model_arch_info) THEN Raise(Crimes)
     ELSE pc' = "plan" /\ err' = err
  /\ UNCHANGED <<writer, cfg, opts, world, planner, targets, warmed, done,
                 tokenizer, out>>

\* merge.py:69-75: build the planner and plan
Plan ==
  /\ pc = "plan"
  /\ LET p == plan(MergePlanner(cfg, arch_info(archs), "out", opts)) IN
     /\ planner' = p
     /\ IF p.error # NoError
        THEN Raise(p.error) /\ targets' = targets
        ELSE pc' = "warmup" /\ err' = err /\ targets' = plan_res(p)
  /\ UNCHANGED <<writer, cfg, opts, world, archs, warmed, done, tokenizer, out>>

(***************************************************************************)
(* The executor (mergekit.graph.Executor): it runs a task once all the    *)
(* tasks it depends on have completed, and stops at the first failure.     *)
(* A node is a task of the returned list or one of the tasks it holds:     *)
(* <<"save", i>>, <<"merge", i>> and <<"gather", i>> for the SaveTensor    *)
(* at position i, <<"finalize", i>>, the shared writer and the tokenizer.  *)
(***************************************************************************)
Writer == <<"writer", 0>>
Tokenizer == <<"tokenizer", 0>>

NodesOf(tasks, i) ==
  IF tasks[i].kind = "SaveTensor"
  THEN {<<"gather", i>>, <<"merge", i>>, <<"save", i>>, Writer} \cup
       (IF tasks[i].tensor_task.tokenizer_task # NoTask
        THEN {Tokenizer} ELSE {})
  ELSE IF tasks[i].kind = "FinalizeModel"
  THEN {<<"finalize", i>>, Writer}
  ELSE {Tokenizer}

Nodes(tasks) == UNION {NodesOf(tasks, i) : i \in 1..Len(tasks)}

\* the positions of the returned list holding one of the given tasks
positions_of(tasks, held) ==
  {j \in 1..Len(tasks) : \E k \in 1..Len(held) : held[k] = tasks[j]}

\* variant: the tokenizer task waits for the Finalizer
DepsTokenizerAfterFinalize(tasks, n) ==
  IF n[1] = "merge"
  THEN {<<"gather", n[2]>>} \cup
       (IF tasks[n[2]].tensor_task.tokenizer_task # NoTask
        THEN {Tokenizer} ELSE {})
  ELSE IF n[1] = "save" THEN {<<"merge", n[2]>>, Writer}
  ELSE IF n[1] = "finalize"
  THEN {<<"save", j>> :
          j \in positions_of(tasks, tasks[n[2]].tensor_save_tasks)}
       \cup {Writer}
  ELSE IF n = Tokenizer
  THEN {<<"finalize", j>> :
          j \in {i \in 1..Len(tasks) : tasks[i].kind = "FinalizeModel"}}
  ELSE {}

\* the nodes a node depends on, read from the task's own fields
Deps(tasks, n) ==
  IF n[1] = "merge"
  THEN {<<"gather", n[2]>>} \cup
       (IF tasks[n[2]].tensor_task.tokenizer_task # NoTask
        THEN {Tokenizer} ELSE {})
  ELSE IF n[1] = "save" THEN {<<"merge", n[2]>>, Writer}
  ELSE IF n[1] = "finalize"
  THEN {<<"save", j>> :
          j \in positions_of(tasks, tasks[n[2]].tensor_save_tasks)}
       \cup {Writer}
  ELSE {}

Ready(tasks, finished) ==
  {n \in Nodes(tasks) \ finished : Deps(tasks, n) \subseteq finished}

\* insertion order: the tasks of the list in order, each after the tasks
\* it holds
RECURSIVE Rank(_, _)
Rank(tasks, n) ==
  IF n = Writer \/ n = Tokenizer
  THEN LET first == CHOOSE i \in 1..Len(tasks) :
                      /\ n \in NodesOf(tasks, i)
                      /\ \A j \in 1..Len(tasks) :
                           n \in NodesOf(tasks, j) => i <= j
       IN 10 * first + (IF n = Tokenizer THEN 0 ELSE 3)
  ELSE 10 * n[2] + (IF n[1] = "gather" THEN 1
                    ELSE IF n[1] = "merge" THEN 2 ELSE 4)

\* plans of at most this many nodes are run in every order the
\* dependencies allow, larger ones in insertion order
MaxFreeNodes == 12

Selectable(tasks, finished) ==
  IF Cardinality(Nodes(tasks)) <= MaxFreeNodes THEN Ready(tasks, finished)
  ELSE {n \in Ready(tasks, finished) :
          \A m \in Ready(tasks, finished) : Rank(tasks, n) <= Rank(tasks, m)}

(***************************************************************************)
(* run_merge (mergekit/merge.py), after the plan.                          *)
(***************************************************************************)
LoadFailed == "model cannot be loaded"
TaskFailed == "task failed"
TokenizerFailed == "tokenizer build failed"

\* the error a task raises when it fails
task_error(n) == IF n = Tokenizer THEN TokenizerFailed ELSE TaskFailed
ExecErrors == {TaskFailed, TokenizerFailed}

\* merge.py:77-81: one loader_cache.get(model) of the warm-up loop
WarmUpGet ==
  /\ pc = "warmup"
  /\ warmed < Len(world.referenced)
  /\ \E loaded \in BOOLEAN :
       IF loaded THEN warmed' = warmed + 1 /\ pc' = pc /\ err' = err
       ELSE Raise(LoadFailed) /\ warmed' = warmed
  /\ UNCHANGED <<writer, cfg, opts, world, archs, planner, targets, done,
                 tokenizer, out>>

\* variant: the executor is built without waiting for the warm-up loop
StartExecutorEarly ==
  /\ pc = "warmup"
  /\ pc' = "exec"
  /\ UNCHANGED <<writer, cfg, opts, world, err, archs, planner, targets, warmed,
                 done, tokenizer, out>>

\* merge.py:83-87: the warm-up loop is over, the executor is built
StartExecutor ==
  /\ pc = "warmup"
  /\ warmed = Len(world.referenced)
  /\ pc' = "exec"
  /\ UNCHANGED <<writer, cfg, opts, world, err, archs, planner, targets, warmed,
                 done, tokenizer, out>>

\* one task runs to completion; merge.py:90-92 keeps a built tokenizer
ExecTask ==
  /\ pc = "exec"
  /\ \E n \in Selectable(targets, done) :
       /\ done' = done \cup {n}
       /\ tokenizer' = IF n = Tokenizer THEN "built" ELSE tokenizer
       /\ out' = IF n[1] = "finalize" THEN [out EXCEPT !.manifest = TRUE]
                 ELSE out
  /\ UNCHANGED <<writer, cfg, opts, world, pc, err, archs, planner, targets,
                 warmed>>

\* variant: run_merge wraps the error of a failed task in its own
ExecTaskFailsWrapped ==
  /\ pc = "exec"
  /\ \E n \in Selectable(targets, done) : Raise("merge failed")
  /\ UNCHANGED <<writer, cfg, opts, world, archs, planner, targets, warmed,
                 done, tokenizer, out>>

\* variant: a failure of the tokenizer task is swallowed, the run goes on
\* without a built tokenizer
ExecTaskFailsTokenizerRecovered ==
  /\ pc = "exec"
  /\ \E n \in Selectable(targets, done) :
       IF n = Tokenizer
       THEN done' = done \cup {n} /\ pc' = pc /\ err' = err
       ELSE Raise(task_error(n)) /\ done' = done
  /\ UNCHANGED <<writer, cfg, opts, world, archs, planner, targets, warmed,
                 tokenizer, out>>

\* one task raises: the executor stops and run_merge propagates the error
ExecTaskFails ==
  /\ pc = "exec"
  /\ \E n \in Selectable(targets, done) : Raise(task_error(n))
  /\ UNCHANGED <<writer, cfg, opts, world, archs, planner, targets, warmed, done,
                 tokenizer, out>>

\* exec.run() is exhausted
ExecFinished ==
  /\ pc = "exec"
  /\ Nodes(targets) \subseteq done
  /\ pc' = "config"
  /\ UNCHANGED <<writer, cfg, opts, world, err, archs, planner, targets, warmed,
                 done, tokenizer, out>>

RECURSIVE sum_first_source(_, _)
sum_first_source(slices, k) ==
  IF k > Len(slices) THEN 0
  ELSE (slices[k].sources[1].hi - slices[k].sources[1].lo)
       + sum_first_source(slices, k + 1)

VocabWarning == "Unable to set vocabulary size in output config"
LayersWarning == "Unable to set number of layers in output config"
DonorError == "Failed to copy tokenizer"

\* variant: a failure to read the vocabulary size is not caught
SaveConfigVocabFatal ==
  /\ pc = "config"
  /\ \E vocab_ok \in BOOLEAN, layers_ok \in BOOLEAN :
       IF tokenizer # None /\ ~vocab_ok
       THEN Raise(VocabWarning) /\ out' = out
       ELSE /\ out' = [out EXCEPT
                         !.vocab_size_set = tokenizer # None,
                         !.num_layers_set = ~cfg.slices_none /\ layers_ok,
                         !.num_layers =
                           IF ~cfg.slices_none /\ layers_ok
                           THEN sum_first_source(cfg.slices, 1) ELSE 0,
                         !.warnings =
                           IF ~cfg.slices_none /\ layers_ok THEN {}
                           ELSE {LayersWarning},
                         !.config = TRUE]
            /\ pc' = "tokenizer" /\ err' = err
  /\ UNCHANGED <<writer, cfg, opts, world, archs, planner, targets, warmed,
                 done, tokenizer>>

\* merge.py:94-115: the output configuration is completed and saved;
\* each of the two fields is set unless computing or setting it fails,
\* which is logged
SaveConfig ==
  /\ pc = "config"
  /\ \E vocab_ok \in BOOLEAN, layers_ok \in BOOLEAN :
       LET vocab_set == tokenizer # None /\ vocab_ok
           layers_set == ~cfg.slices_none /\ layers_ok
       IN out' = [out EXCEPT
                    !.vocab_size_set = vocab_set,
                    !.num_layers_set = layers_set,
                    !.num_layers = IF layers_set
                                   THEN sum_first_source(cfg.slices, 1) ELSE 0,
                    !.warnings =
                      (IF tokenizer # None /\ ~vocab_ok
                       THEN {VocabWarning} ELSE {})
                      \cup (IF layers_set THEN {} ELSE {LayersWarning}),
                    !.config = TRUE]
  /\ pc' = "tokenizer"
  /\ UNCHANGED <<writer, cfg, opts, world, err, archs, planner, targets,
                 warmed, done, tokenizer>>

\* variant: the donor is the first referenced model whatever base_model is
first_referenced_model(config, referenced) == referenced[1]

\* merge.py:126-130: the model whose tokenizer is copied
donor_model(config, referenced) ==
  IF truthy(config.base_model) THEN config.base_model ELSE referenced[1]

\* merge.py:117-121 with _get_donor_tokenizer (merge.py:124-138)
SaveTokenizer ==
  /\ pc = "tokenizer"
  /\ IF tokenizer = None /\ opts.copy_tokenizer
     THEN \E donor_ok \in BOOLEAN :
            /\ tokenizer' = IF donor_ok THEN "donor" ELSE None
            /\ out' = [out EXCEPT
                         !.donor = donor_model(cfg, world.referenced),
                         !.warnings = IF donor_ok THEN @
                                      ELSE @ \cup {DonorError},
                         !.tokenizer = donor_ok]
     ELSE /\ tokenizer' = tokenizer
          /\ out' = [out EXCEPT !.tokenizer = tokenizer # None]
  /\ pc' = "done"
  /\ UNCHANGED <<writer, cfg, opts, world, err, archs, planner, targets,
                 warmed, done>>

(***************************************************************************)
(* Specifications.                                                         *)
(***************************************************************************)
\* planning only, over layer ranges of up to MaxLen layers
InitPlan ==
  InitWith(SliceConfigs(Sources(LayerStarts, 0..MaxLen), MaxSources, {None})
             \cup TokenizerConfigs(Sources({0}, 0..MaxRunLen), MaxSources)
             \cup ModelListConfigs,
           {Options(TRUE, TRUE)})

NextPlan == CheckOutputRequested \/ CheckArchitectures \/ Plan

SpecPlan == InitPlan /\ [][NextPlan]_vars

\* a run that is not running run_merge
Idle ==
  /\ cfg = Configuration("passthrough", {}, None, <<>>, <<>>, TRUE)
  /\ opts = Options(TRUE, TRUE)
  /\ world = [arch |-> [m \in Models |-> "llama"], referenced |-> <<>>]
  /\ err = NoError
  /\ archs = <<>>
  /\ planner = NoPlanner
  /\ targets = <<>>
  /\ warmed = 0
  /\ done = {}
  /\ tokenizer = None
  /\ out = EmptyOut

\* the names and the maximum shard sizes the writer is exercised with
WeightNames == {"w1", "w2"}
ShardSizes == {1, 2}

\* one write is handed to the writer
WriterSave ==
  /\ pc = "writing"
  /\ Len(writer.calls) < MaxWrites
  /\ \E name \in WeightNames, size \in 0..MaxWriteSize :
       writer' = save_tensor(writer, name, size)
  /\ UNCHANGED <<cfg, opts, world, pc, err, archs, planner, targets, warmed,
                 done, tokenizer, out>>

\* the writer is finalized
WriterFinalize ==
  /\ pc = "writing"
  /\ writer' = finalize(writer)
  /\ pc' = "finalized"
  /\ UNCHANGED <<cfg, opts, world, err, archs, planner, targets, warmed,
                 done, tokenizer, out>>

\* the shard writer alone, over every sequence of at most MaxWrites writes
InitWriter ==
  /\ Idle
  /\ pc = "writing"
  /\ writer \in {TensorWriter(m) : m \in ShardSizes}

NextWriter == WriterSave \/ WriterFinalize

SpecWriter == InitWriter /\ [][NextWriter]_vars

\* the whole of run_merge, over layer ranges of at most MaxRunLen layers
\* (and inverted ones) starting at layer 0
Init ==
  InitWith(SliceConfigs(Sources({0}, (-1)..MaxRunLen), MaxSources, {None})
             \cup ModelListConfigs,
           {Options(a, TRUE) : a \in BOOLEAN})

Next ==
  \/ CheckOutputRequested
  \/ CheckArchitectures
  \/ Plan
  \/ WarmUpGet
  \/ StartExecutor
  \/ ExecTask
  \/ ExecTaskFails
  \/ ExecFinished
  \/ SaveConfig
  \/ SaveTokenizer

Spec == Init /\ [][Next]_vars

\* run_merge from merge.py:94 on, after an execution that completed, for
\* either outcome of the loop of merge.py:89-92 (a TokenizerInfo was among
\* the values the executor yielded, or none was), with and without a base
\* model and copy_tokenizer
InitOutput ==
  /\ cfg \in SliceConfigs(Sources({0}, 0..MaxRunLen), MaxSources,
                          {None} \cup Models)
  /\ opts \in {Options(TRUE, c) : c \in BOOLEAN}
  /\ \E a \in Archs, r \in Orders(referenced_set(cfg)) :
       world = [arch |-> [m \in Models |-> IF m = "m1" THEN "llama" ELSE a],
                referenced |-> r]
  /\ Len(world.referenced) > 0
  /\ archs = model_arch_info
  /\ planner = plan(MergePlanner(cfg, arch_info(archs), "out", opts))
  /\ planner.error = NoError
  /\ targets = plan_res(planner)
  /\ warmed = Len(world.referenced)
  /\ done = Nodes(targets)
  /\ tokenizer \in {None, "built"}
  /\ pc = "config"
  /\ err = NoError
  /\ out = [EmptyOut EXCEPT !.manifest = TRUE]
  /\ writer = IdleWriter

NextOutput == SaveConfig \/ SaveTokenizer

SpecOutput == InitOutput /\ [][NextOutput]_vars

\* run_merge with an executor that keeps running tasks while one is ready
\* (the loop of exec.run()), over passthrough configurations of one or two
\* slices whose layer ranges are not empty
InitLive ==
  InitWith({c \in SliceConfigs(Sources({0}, 1..MaxRunLen), MaxSources,
                               {None}) :
              c.merge_method = "passthrough" /\ Len(c.slices) <= 2},
           {Options(TRUE, TRUE)})

SpecLive == InitLive /\ [][Next]_vars /\ WF_vars(ExecTask)

(***************************************************************************)
(* Properties.                                                             *)
(***************************************************************************)
PlanSucceeded == planner.error = NoError
PlanFailed == planner # NoPlanner /\ planner.error # NoError

\* the number of layers of a slice, read from its first source
SliceLen(sl) == sl.sources[1].hi - sl.sources[1].lo

\* the number of output layers of the slices before slice i
RECURSIVE LayersBefore(_, _)
LayersBefore(slices, i) ==
  IF i <= 1 THEN 0
  ELSE LayersBefore(slices, i - 1) +
       (IF SliceLen(slices[i - 1]) > 0 THEN SliceLen(slices[i - 1]) ELSE 0)

SavesNamed(name) ==
  {p \in 1..Len(targets) :
     targets[p].kind = "SaveTensor" /\ targets[p].tensor_name = name}

\* C1: in a successful plan, layer offset j of slice i is saved exactly
\* once, for every per-layer weight template, under the output layer index
\* n1 + ... + n(i-1) + j, and that save reads source layer lo_s + j from
\* each source s of the slice (so stacking a range twice gives twice the
\* layers, the second copy numbered after the first).
C1_OutputLayerNumbering ==
  PlanSucceeded =>
    \A i \in 1..Len(cfg.slices) :
      \A j \in 0..(SliceLen(cfg.slices[i]) - 1) :
        \A k \in 1..Len(layer_weight_formats(planner.arch_info)) :
          LET fmt == layer_weight_formats(planner.arch_info)[k]
              saves == SavesNamed(format(fmt, LayersBefore(cfg.slices, i) + j))
              srcs == cfg.slices[i].sources
          IN /\ Cardinality(saves) = 1
             /\ \A p \in saves : \A s \in 1..Len(srcs) :
                  targets[p].tensor_task.tensors.tensor_names[srcs[s].model]
                    = format(fmt, srcs[s].lo + j)

\* C2: in a successful plan no two SaveTensor tasks have the same
\* tensor_name.
C2_UniqueSaveNames ==
  PlanSucceeded =>
    \A p, q \in 1..Len(targets) :
      (/\ targets[p].kind = "SaveTensor"
       /\ targets[q].kind = "SaveTensor"
       /\ targets[p].tensor_name = targets[q].tensor_name) => p = q

(***************************************************************************)
(* Properties of run_merge's checks and of the plan's shape.               *)
(***************************************************************************)
HasUnequalSlice(config) ==
  \E i \in 1..Len(config.slices) :
    \E a, b \in 1..Len(config.slices[i].sources) :
      LET sa == config.slices[i].sources[a]
          sb == config.slices[i].sources[b]
      IN sa.hi - sa.lo # sb.hi - sb.lo

SourceModels(config) ==
  UNION {{config.slices[i].sources[j].model :
            j \in 1..Len(config.slices[i].sources)} :
         i \in 1..Len(config.slices)}

\* every parameter a merge method of this configuration requires is defined
AllParametersResolve(config) ==
  \A method \in {config.merge_method, "tokenizer_permute"} :
    /\ \A p \in parameters(method) : ~parameter_raises(config, p, None)
    /\ \A p \in tensor_parameters(method) : \A m \in SourceModels(config) :
         ~parameter_raises(config, p, m)

NothingRan == warmed = 0 /\ done = {} /\ out = EmptyOut /\ tokenizer = None

\* C3 as stated: once the planner has run on a configuration with a slice
\* of unequal source lengths, run_merge has failed with "All inputs to a
\* slice must contain the same number of layers" before warm-up and before
\* any task; a configuration without such a slice never gets this error.
C3_UnequalSliceError ==
  /\ (planner # NoPlanner /\ HasUnequalSlice(cfg)) =>
       (pc = "error" /\ err = UnequalSlices /\ NothingRan)
  /\ ~HasUnequalSlice(cfg) => err # UnequalSlices

\* C3 amended: a configuration with a slice of unequal source lengths
\* never gets past planning, with or without allow_crimes: once the
\* planner has run, run_merge has failed before warm-up and before any
\* task, and the error is the unequal-slice error whenever every required
\* merge parameter resolves (else the unresolved parameter of a weight
\* planned earlier may be reported instead); a configuration without such
\* a slice never gets this error.
C3_UnequalSliceFatal ==
  /\ HasUnequalSlice(cfg) =>
       (pc \in {"start", "arch", "plan", "error"} /\ NothingRan)
  /\ (planner # NoPlanner /\ HasUnequalSlice(cfg)) =>
       /\ pc = "error"
       /\ err \in {UnequalSlices, MissingParameter}
       /\ AllParametersResolve(cfg) => err = UnequalSlices
  /\ ~HasUnequalSlice(cfg) => err # UnequalSlices

\* the unequal-slice error with allow_crimes set and architectures mixed
C3_Witness ==
  /\ err = UnequalSlices
  /\ opts.allow_crimes
  /\ Len(archs) = 2 /\ archs[1] # archs[2]

SavePositions == {p \in 1..Len(targets) : targets[p].kind = "SaveTensor"}
FinalizePositions ==
  {p \in 1..Len(targets) : targets[p].kind = "FinalizeModel"}

\* the number of weights a configuration with slices asks to be planned
PlannedWeights(config, arch) ==
  Len(pre_weights(arch)) + Len(post_weights(arch)) +
  LayersBefore(config.slices, Len(config.slices) + 1)
    * Len(layer_weight_formats(arch))

\* C4: a successful plan holds exactly one FinalizeModel task; it comes
\* after all the SaveTensor tasks, holds every one of them (as many as
\* there are pre, per-layer and post weights to plan), and depends on
\* exactly these saves and the writer, not on itself; in every execution
\* it has completed only if every save has.
C4_FinalizerAfterSaves ==
  PlanSucceeded =>
    /\ Cardinality(FinalizePositions) = 1
    /\ Cardinality(SavePositions) = PlannedWeights(cfg, planner.arch_info)
    /\ \A f \in FinalizePositions :
         /\ SavePositions = 1..(f - 1)
         /\ targets[f].tensor_save_tasks = SubSeq(targets, 1, f - 1)
         /\ targets[f].writer_task = planner.writer_task
         /\ Deps(targets, <<"finalize", f>>)
              = {<<"save", p>> : p \in SavePositions} \cup {Writer}
         /\ <<"finalize", f>> \in done =>
              \A p \in SavePositions : <<"save", p>> \in done

\* the Finalizer has run in a plan of at least three saves
C4_Witness ==
  /\ Cardinality(SavePositions) >= 3
  /\ \E f \in FinalizePositions : <<"finalize", f>> \in done

\* C5: if a task of the plan has failed, the Finalizer has not run (no
\* manifest was emitted).
C5_NoManifestAfterFailure ==
  (pc = "error" /\ err \in ExecErrors) => ~out.manifest

\* C6: a configuration with a whole-model list and no slices is planned
\* without error, with a save for every pre and post weight and the
\* Finalizer.
C6_ModelListPlanned ==
  (Len(cfg.models) > 0 /\ cfg.slices_none /\ planner # NoPlanner) =>
    /\ PlanSucceeded
    /\ \A k \in 1..Len(pre_weights(planner.arch_info)) :
         SavesNamed(pre_weights(planner.arch_info)[k]) # {}
    /\ \A k \in 1..Len(post_weights(planner.arch_info)) :
         SavesNamed(post_weights(planner.arch_info)[k]) # {}
    /\ FinalizePositions # {}

\* C7: run_merge fails with "No output requested" exactly when the
\* configuration has neither models nor slices (empty or absent), and
\* then nothing else has happened: no architecture was looked up, no
\* planner built, no model loaded, no task run, nothing written.
C7_NoOutputRequested ==
  /\ pc # "start" =>
       (err = NoOutput <=>
          (Len(cfg.models) = 0 /\ (cfg.slices_none \/ Len(cfg.slices) = 0)))
  /\ err = NoOutput =>
       (pc = "error" /\ archs = <<>> /\ planner = NoPlanner /\ targets = <<>>
        /\ NothingRan)

\* the error raised for an empty slice list
C7_Witness == err = NoOutput /\ ~cfg.slices_none

ArchitecturesMixed ==
  \E i \in 2..Len(world.referenced) :
    world.arch[world.referenced[i]] # world.arch[world.referenced[1]]

\* C8: past the architecture check, mixed architectures without
\* allow_crimes have aborted run_merge before planning, warm-up and
\* execution with nothing written; with allow_crimes, or with equal
\* architectures, the check has not failed and the planner is built on
\* the first referenced model's architecture.
C8_ArchitectureCheck ==
  (pc \notin {"start", "arch"} /\ err # NoOutput) =>
    /\ (ArchitecturesMixed /\ ~opts.allow_crimes) =>
         (pc = "error" /\ err = Crimes /\ planner = NoPlanner
          /\ targets = <<>> /\ NothingRan)
    /\ (opts.allow_crimes \/ ~ArchitecturesMixed) =>
         /\ err # Crimes
         /\ pc # "plan" => planner # NoPlanner
         /\ planner # NoPlanner =>
              planner.arch_info = world.arch[world.referenced[1]]

\* mixed architectures planned under allow_crimes
C8_Witness ==
  /\ ArchitecturesMixed /\ opts.allow_crimes
  /\ planner # NoPlanner
  /\ planner.arch_info = "gpt2seq"

\* C9: a task has run, or run_merge is at or past the executor, only if
\* the plan succeeded and every referenced model was warmed up; warm-up
\* starts only after a successful plan; a failed plan (an unresolved
\* parameter included) or a failed warm-up leaves no task run and nothing
\* written.
C9_PlanWarmUpExecute ==
  /\ (done # {} \/ pc \in {"exec", "config", "tokenizer", "done"}) =>
       (PlanSucceeded /\ warmed = Len(world.referenced)
        /\ targets = plan_res(planner))
  /\ warmed > 0 => PlanSucceeded
  /\ (PlanFailed \/ err = LoadFailed) =>
       (pc = "error" /\ done = {} /\ out = EmptyOut /\ tokenizer = None)

\* the second model of the warm-up could not be loaded
C9_Witness == err = LoadFailed /\ warmed = 1 /\ done = {}

\* the position in the plan of layer j of slice i, template k
LayerPosition(i, j, k) ==
  Len(pre_weights(planner.arch_info)) +
  (LayersBefore(cfg.slices, i) + j)
    * Len(layer_weight_formats(planner.arch_info)) + k

\* C10: planning never divides by zero; in a successful plan the layer at
\* index idx of a slice of n layers is planned with t = idx/(n-1) when
\* n > 1 and t = 1 when n = 1, so t is 0 for the first and 1 for the last
\* layer and strictly increasing in between; a slice of no layers plans
\* nothing.
C10_InterpolationFraction ==
  /\ planner.error # "ZeroDivisionError"
  /\ PlanSucceeded =>
       /\ Len(planner.tasks) = PlannedWeights(cfg, planner.arch_info) + 1
       /\ \A i \in 1..Len(cfg.slices) :
            LET n == SliceLen(cfg.slices[i]) IN
            \A idx \in 0..(n - 1) :
              \A k \in 1..Len(layer_weight_formats(planner.arch_info)) :
                LET t == targets[LayerPosition(i, idx, k)].tensor_task.t IN
                /\ t.den > 0
                /\ t = IF n > 1 THEN [num |-> idx, den |-> n - 1] ELSE One
                /\ (n > 1 /\ idx = 0) => t.num = 0
                /\ idx = n - 1 => t.num = t.den
                /\ idx > 0 =>
                     LET u == targets[LayerPosition(i, idx - 1, k)]
                                .tensor_task.t
                     IN u.num * t.den < t.num * u.den

\* a plan with a slice of three layers and a slice of one layer
C10_Witness ==
  /\ PlanSucceeded
  /\ \E i, j \in 1..Len(cfg.slices) :
       SliceLen(cfg.slices[i]) = 3 /\ SliceLen(cfg.slices[j]) = 1

(***************************************************************************)
(* Properties of the plan's contents.                                      *)
(***************************************************************************)
\* the (model, input name) pairs a SaveTensor's merge gathers
GatheredPairs(task) ==
  {<<m, task.tensor_task.tensors.tensor_names[m]>> :
     m \in DOMAIN task.tensor_task.tensors.tensor_names}

\* the (model, input name) pairs of a whole-model weight over some sources
WholePairs(sources, name) ==
  {<<sources[i].model, name>> : i \in 1..Len(sources)}

SeqRange(f) == {f[i] : i \in DOMAIN f}

\* where a task of the plan belongs: pre weights, layers, post weights,
\* the Finalizer
PlanSection(task) ==
  IF task.kind = "FinalizeModel" THEN 4
  ELSE IF task.tensor_name \in SeqRange(pre_weights(planner.arch_info)) THEN 1
  ELSE IF task.tensor_name \in SeqRange(post_weights(planner.arch_info)) THEN 3
  ELSE 2

C12_TokenizerTaskIffRequested ==
  planner # NoPlanner =>
    /\ planner.tokenizer_task # NoTask <=> tokenizer_requested(cfg)
    /\ PlanSucceeded =>
         /\ targets[Len(targets)].kind = "BuildTokenizer"
              <=> tokenizer_requested(cfg)
         /\ ~tokenizer_requested(cfg) =>
              /\ targets[Len(targets)].kind = "FinalizeModel"
              /\ \A p \in SavePositions :
                   targets[p].tensor_task.method = cfg.merge_method

(***************************************************************************)
(* Properties of run_merge's handling of failures.                         *)
(***************************************************************************)
OutputSteps == {"config", "tokenizer", "done"}
NoOutputWritten == ~out.config /\ ~out.tokenizer /\ out.donor = None

\* C13 as stated: a failure of the tokenizer-build task does not abort the
\* run.
C13_TokenizerFailureRecovered ==
  err = TokenizerFailed => pc # "error"

\* C13 amended: a failure of the tokenizer-build task is an execution
\* error like any other: run_merge has stopped with that error, no output
\* configuration and no tokenizer was written and no donor tokenizer was
\* looked up; run_merge reaches its output steps only after the tokenizer
\* task of the plan completed, then holding the tokenizer it built, and
\* never looks up a donor in that run.
C13_TokenizerFailureFatal ==
  /\ err = TokenizerFailed =>
       (pc = "error" /\ Tokenizer \notin done /\ NoOutputWritten)
  /\ (pc \in OutputSteps /\ Tokenizer \in Nodes(targets)) =>
       (Tokenizer \in done /\ tokenizer = "built" /\ out.donor = None)

\* the tokenizer task failed after every save had been written
C13_Witness ==
  /\ err = TokenizerFailed
  /\ SavePositions # {}
  /\ \A p \in SavePositions : <<"save", p>> \in done

\* C14: the output-configuration step never raises: from it run_merge
\* always goes on to the tokenizer step with the configuration saved;
\* a failure to set the vocabulary size, or to set the layer count, is
\* logged and leaves that field unset, and either field is set or not
\* whatever happened to the other; a field that is set without a warning
\* holds the computed value.
C14_ConfigFieldFailuresNonFatal ==
  /\ [][pc = "config" =>
          /\ pc' = "tokenizer" /\ err' = NoError
          /\ out'.config
          /\ out'.vocab_size_set <=>
               (tokenizer # None /\ VocabWarning \notin out'.warnings)
          /\ out'.num_layers_set <=> LayersWarning \notin out'.warnings
          /\ out'.num_layers_set =>
               out'.num_layers = sum_first_source(cfg.slices, 1)]_vars
  /\ [](pc \in {"tokenizer", "done"} => (err = NoError /\ out.config))

\* the vocabulary size could not be set, the layer count was, and the run
\* finished with its tokenizer saved
C14_Witness ==
  /\ pc = "done"
  /\ VocabWarning \in out.warnings
  /\ ~out.vocab_size_set
  /\ out.num_layers_set
  /\ out.tokenizer

(***************************************************************************)
(* Properties of the shard writer.                                         *)
(***************************************************************************)
\* the shards written so far, the open one included
AllShards ==
  IF writer.current_shard = <<>> THEN writer.shards
  ELSE Append(writer.shards, writer.current_shard)

RECURSIVE Flatten(_)
Flatten(shards) ==
  IF shards = <<>> THEN <<>> ELSE Head(shards) \o Flatten(Tail(shards))

RECURSIVE SumSizes(_)
SumSizes(shards) ==
  IF shards = <<>> THEN 0 ELSE shard_size(Head(shards)) + SumSizes(Tail(shards))

\* C15: whatever was written, the shards hold the writes whole and in
\* order, each write in one shard, so the shard sizes add up to the sizes of
\* the writes; a shard is larger than the maximum only if it holds a single
\* write; and once finalized no shard is left open and the manifest maps
\* exactly the names written, each to one shard that holds a write of that
\* name.
C15_ShardWriter ==
  /\ Flatten(AllShards) = writer.calls
  /\ SumSizes(AllShards) = shard_size(writer.calls)
  /\ \A i \in 1..Len(AllShards) :
       \/ shard_size(AllShards[i]) <= writer.max_shard_size
       \/ Len(AllShards[i]) = 1
  /\ \A i \in 1..Len(AllShards) : AllShards[i] # <<>>
  /\ writer.finalized =>
       /\ writer.current_shard = <<>>
       /\ DOMAIN writer.manifest
            = {writer.calls[k].name : k \in 1..Len(writer.calls)}
       /\ \A n \in DOMAIN writer.manifest :
            /\ writer.manifest[n] \in 1..Len(writer.shards)
            /\ \E k \in 1..Len(writer.shards[writer.manifest[n]]) :
                 writer.shards[writer.manifest[n]][k].name = n

\* finalized with a shard closed for size, a shard holding one write larger
\* than the maximum, and a name written twice
C15_Witness ==
  /\ writer.finalized
  /\ Len(writer.shards) >= 3
  /\ \E i \in 1..Len(writer.shards) :
       shard_size(writer.shards[i]) > writer.max_shard_size
  /\ \E i \in 1..Len(writer.shards) : Len(writer.shards[i]) >= 2
  /\ \E j, k \in 1..Len(writer.calls) :
       j # k /\ writer.calls[j].name = writer.calls[k].name

(***************************************************************************)
(* Properties of the task graph and its execution.                         *)
(***************************************************************************)
\* the nodes that can have completed after k rounds of running everything
\* whose dependencies completed in an earlier round
RECURSIVE CompletedAfter(_, _)
CompletedAfter(tasks, k) ==
  IF k = 0 THEN {}
  ELSE LET before == CompletedAfter(tasks, k - 1)
       IN {n \in Nodes(tasks) : Deps(tasks, n) \subseteq before}

Acyclic(tasks) ==
  /\ \A n \in Nodes(tasks) : Deps(tasks, n) \subseteq Nodes(tasks)
  /\ CompletedAfter(tasks, Cardinality(Nodes(tasks))) = Nodes(tasks)

\* C16: the tasks of a successful plan and the tasks they hold form a
\* dependency graph without a cycle, in which a save depends on its merge
\* and the writer, a merge on its gather, the Finalizer on the saves and
\* the writer, and the writer and the tokenizer task on nothing; the
\* executor has run a task only after the tasks it depends on, always has
\* a task ready while one is unfinished, and, running ready tasks for as
\* long as there are any, ends with every task completed unless one fails.
C16_DagAndProgress ==
  /\ [](PlanSucceeded =>
          /\ Acyclic(targets)
          /\ \A n \in Nodes(targets) \cap {Writer, Tokenizer} :
               Deps(targets, n) = {}
          /\ \A p \in SavePositions :
               /\ <<"merge", p>> \in Deps(targets, <<"save", p>>)
               /\ <<"gather", p>> \in Deps(targets, <<"merge", p>>)
          /\ done \subseteq Nodes(targets)
          /\ \A n \in done : Deps(targets, n) \subseteq done
          /\ (pc = "exec" /\ ~(Nodes(targets) \subseteq done)) =>
               Selectable(targets, done) # {})
  /\ (pc = "exec") ~> (pc = "error" \/ Nodes(targets) \subseteq done)
  /\ [](pc \in OutputSteps => Nodes(targets) \subseteq done)

\* every task of a plan whose embedding merge waits for the tokenizer task
\* has completed
C16_Witness ==
  /\ pc = "done"
  /\ Nodes(targets) \subseteq done
  /\ Tokenizer \in done
  /\ \E p \in SavePositions : Tokenizer \in Deps(targets, <<"merge", p>>)
  /\ Cardinality(SavePositions) >= 3

\* C17: when a task fails while the executor runs the plan, run_merge ends
\* with the very error that task raised and performs none of the later
\* steps: no output configuration is saved, no donor tokenizer is looked
\* up and no tokenizer is saved; the executor is left only that way or
\* with every task completed.
C17_ExecutorErrorPropagates ==
  /\ [][(pc = "exec" /\ pc' # "exec") =>
          \/ /\ pc' = "error"
             /\ \E n \in Selectable(targets, done) : err' = task_error(n)
             /\ done' = done /\ out' = out /\ tokenizer' = tokenizer
          \/ /\ pc' = "config" /\ err' = NoError
             /\ Nodes(targets) \subseteq done]_vars
  /\ [](err \in ExecErrors => (pc = "error" /\ NoOutputWritten))
  /\ [][err \notin ExecErrors]_vars

\* a save failed after the tokenizer had been built
C17_Witness ==
  /\ err = TaskFailed
  /\ tokenizer = "built"
  /\ \E p \in SavePositions :
       <<"merge", p>> \in done /\ <<"save", p>> \notin done

(***************************************************************************)
(* Properties of the gathered inputs and of the layer count.               *)
(***************************************************************************)
\* the sources of the slice whose weights the save at position p of a
\* successful plan merges, and the layer offset of that save in the slice
\* (0 for a pre or post weight)
RECURSIVE SliceOfLayer(_, _)
SliceOfLayer(layer, i) ==
  IF i >= Len(cfg.slices) \/ layer < LayersBefore(cfg.slices, i + 1)
  THEN i ELSE SliceOfLayer(layer, i + 1)

SaveLayer(p) ==
  (p - Len(pre_weights(planner.arch_info)) - 1)
    \div Len(layer_weight_formats(planner.arch_info))

SaveSources(p) ==
  IF PlanSection(targets[p]) = 1 THEN cfg.slices[1].sources
  ELSE IF PlanSection(targets[p]) = 3
  THEN cfg.slices[Len(cfg.slices)].sources
  ELSE cfg.slices[SliceOfLayer(SaveLayer(p), 1)].sources

SaveOffset(p) ==
  IF PlanSection(targets[p]) = 2
  THEN SaveLayer(p)
         - LayersBefore(cfg.slices, SliceOfLayer(SaveLayer(p), 1))
  ELSE 0

\* the name of the weight the save at position p reads from a source
SaveInputName(p, source) ==
  IF PlanSection(targets[p]) = 2
  THEN format(targets[p].tensor_name[1], source.lo + SaveOffset(p))
  ELSE targets[p].tensor_name

\* C18: in a successful plan the gather of every planned weight holds as
\* many inputs as the slice has sources, and for each source the input
\* read from that source's model under that source's input name, also
\* when two sources of the slice name the same model.
C18_GatherPerSource ==
  PlanSucceeded =>
    \A p \in SavePositions :
      LET sources == SaveSources(p) IN
      /\ Cardinality(DOMAIN targets[p].tensor_task.tensors.tensor_names)
           = Len(sources)
      /\ \A i \in 1..Len(sources) :
           <<sources[i].model, SaveInputName(p, sources[i])>>
             \in GatheredPairs(targets[p])

\* the number of output layers the planner planned: the number of times
\* plan_layer was invoked, each invocation planning one save per template
PlannedLayers ==
  (Cardinality(SavePositions)
     - Len(pre_weights(planner.arch_info))
     - Len(post_weights(planner.arch_info)))
  \div Len(layer_weight_formats(planner.arch_info))

\* C19: the layer count written to the output configuration of a
\* configuration with slices is the number of output layers the planner
\* planned.
C19_LayerCountMatchesPlan ==
  (out.config /\ out.num_layers_set) => out.num_layers = PlannedLayers

(***************************************************************************)
(* Properties of the tokenizer step.                                       *)
(***************************************************************************)
\* C20: in the tokenizer step a donor tokenizer is looked up exactly when
\* the execution yielded no built tokenizer and copy_tokenizer is set; the
\* donor is the base model if the configuration has one, else the first
\* referenced model; a tokenizer is saved exactly when one was built or the
\* donor lookup succeeded; a failed lookup is logged and saves none; in
\* every case run_merge ends without error, the output configuration
\* written.
C20_DonorTokenizer ==
  /\ [][pc = "tokenizer" =>
          /\ out'.donor # None <=> (tokenizer = None /\ opts.copy_tokenizer)
          /\ out'.donor # None =>
               out'.donor = IF cfg.base_model # None THEN cfg.base_model
                            ELSE world.referenced[1]
          /\ out'.tokenizer <=> (tokenizer = "built" \/ tokenizer' = "donor")
          /\ tokenizer' = "donor" =>
               (out'.donor # None /\ DonorError \notin out'.warnings)
          /\ DonorError \in out'.warnings <=>
               (out'.donor # None /\ tokenizer' = None)
          /\ tokenizer = "built" => tokenizer' = "built"
          /\ pc' = "done" /\ err' = NoError /\ out'.config]_vars
  /\ [](pc = "tokenizer" => (out.config /\ out.donor = None))
  /\ [](pc = "done" => (err = NoError /\ out.config
                         /\ (out.tokenizer <=> tokenizer # None)))

\* the lookup of the base model's tokenizer failed, the base model not
\* being the first referenced model
C20_Witness ==
  /\ pc = "done"
  /\ DonorError \in out.warnings
  /\ out.donor = cfg.base_model
  /\ out.donor # world.referenced[1]
  /\ out.config /\ ~out.tokenizer

====
